---- MODULE Spec2Model ----
(***************************************************************************)
(* PathFindHer: the safe-route planner of services/geminiService.ts.       *)
(*                                                                         *)
(* Coordinates.  Every coordinate of the model lies on one meridian        *)
(* (lng = 0) and its lat is given in metres of arc along that meridian.    *)
(* For two points of one meridian the haversine formula of                 *)
(* getDistanceMeters reduces to R * |dphi|, i.e. to the absolute           *)
(* difference of the two lat values in these units.                        *)
(*                                                                         *)
(* Numbers.  Durations and seconds are integers; the products and          *)
(* quotients of formatDuration are computed exactly (in tenths of a        *)
(* second) where the code uses IEEE doubles.                               *)
(***************************************************************************)
EXTENDS Integers, Sequences, FiniteSets, TLC

VARIABLES
  pc,               \* position of the getSafeRoute invocation
  start,            \* argument start
  destinationLoc,   \* argument destinationLoc
  pins,             \* argument pins (the hazard snapshot)
  directRouteData,  \* result of the direct fetchOSRMRoute
  results,          \* the eight detour promises: Pending, or their settled value
  candidates,       \* the candidates array after candidates.sort
  selectedRoute,    \* let selectedRoute
  prompt,           \* what the narrative request is told
  aiOutcome,        \* how ai.models.generateContent settled
  response,         \* the RouteResponse getSafeRoute resolved with
  osrmCalls,        \* every fetchOSRMRoute call made, in call order
  aiCalls,          \* number of generateContent calls made
  settledOutOfOrder,\* history: a waypoint request settled before an earlier one
  conflictCall,     \* one application of checkRouteConflicts (SpecConflicts)
  formatCall,       \* one application of formatDuration (SpecFormat)
  distanceCall,     \* one application of getDistanceMeters (SpecDistance)
  storage,          \* localStorage item STORAGE_KEY of pinService.ts (SpecPins)
  subscribers,      \* the callbacks given to subscribeToPins, and what they last got
  lastOp,           \* the pin store operation that ran last, and whom it notified
  app,              \* the useState values of the App component (SpecApp)
  routeCalls,       \* the calculateRoute calls in flight, with their getSafeRoute
  searchTimer,      \* the setTimeout of the debounced-search effect, if armed
  searchCalls       \* the searchPlaces calls in flight, in call order

vars == <<pc, start, destinationLoc, pins, directRouteData, results, candidates,
          selectedRoute, prompt, aiOutcome, response, osrmCalls, aiCalls,
          settledOutOfOrder, conflictCall, formatCall, distanceCall,
          storage, subscribers, lastOp,
          app, routeCalls, searchTimer, searchCalls>>

pinVars == <<storage, subscribers, lastOp>>

appVars == <<app, routeCalls, searchTimer, searchCalls>>

routeVars == <<pc, start, destinationLoc, pins, directRouteData, results,
               candidates, selectedRoute, prompt, aiOutcome, response,
               osrmCalls, aiCalls, settledOutOfOrder>>

-----------------------------------------------------------------------------
(* Values *)

Null == [null |-> TRUE]

Pending == [pending |-> TRUE]

NotAsked == [kind |-> "none"]

SAFE == "SAFE"

CAUTION == "CAUTION"

DANGER == "DANGER"

SafetyLevel == {SAFE, CAUTION, DANGER}

LatLng(lat, lng) == [lat |-> lat, lng |-> lng]

Pin(id, lat, level) == [id |-> id, lat |-> lat, lng |-> 0, safetyLevel |-> level]

Abs(n) == IF n < 0 THEN -n ELSE n

-----------------------------------------------------------------------------
(* Helpers of geminiService.ts *)

GetDistanceMeters(p1, p2) == Abs(p2.lat - p1.lat)

GetBearing(a, b) == IF b.lat >= a.lat THEN 0 ELSE 180

GetDestinationPoint(origin, distanceMeters, bearing) ==
  [origin |-> LatLng(origin.lat, origin.lng), distance |-> distanceMeters, bearing |-> bearing]

DANGER_THRESHOLD_METERS == 150

IGNORE_TERMINAL_DISTANCE == 80

SeqContains(s, x) == \E i \in 1..Len(s) : s[i] = x

SetAdd(s, x) == IF SeqContains(s, x) THEN s ELSE Append(s, x)

\* Mutant of FilterDanger: pins.filter(p => p.safetyLevel !== SafetyLevel.SAFE)
RECURSIVE FilterNotSafe(_, _)
FilterNotSafe(ps, i) ==
  IF i > Len(ps) THEN <<>>
  ELSE IF ps[i].safetyLevel # SAFE
       THEN <<i>> \o FilterNotSafe(ps, i + 1)
       ELSE FilterNotSafe(ps, i + 1)

RECURSIVE FilterDanger(_, _)
FilterDanger(ps, i) ==
  IF i > Len(ps) THEN <<>>
  ELSE IF ps[i].safetyLevel = DANGER
       THEN <<i>> \o FilterDanger(ps, i + 1)
       ELSE FilterDanger(ps, i + 1)

\* Mutant of PinConflictsAt: distToPin <= DANGER_THRESHOLD_METERS
PinConflictsAtInclusive(point, pin, startLoc, endLoc) ==
  /\ GetDistanceMeters(point, pin) <= DANGER_THRESHOLD_METERS
  /\ GetDistanceMeters(pin, startLoc) > IGNORE_TERMINAL_DISTANCE
  /\ GetDistanceMeters(pin, endLoc) > IGNORE_TERMINAL_DISTANCE

PinConflictsAt(point, pin, startLoc, endLoc) ==
  /\ GetDistanceMeters(point, pin) < DANGER_THRESHOLD_METERS
  /\ GetDistanceMeters(pin, startLoc) > IGNORE_TERMINAL_DISTANCE
  /\ GetDistanceMeters(pin, endLoc) > IGNORE_TERMINAL_DISTANCE

RECURSIVE ScanPins(_, _, _, _, _, _, _)
ScanPins(point, dangerPins, k, ps, startLoc, endLoc, conflicts) ==
  IF k > Len(dangerPins) THEN conflicts
  ELSE ScanPins(point, dangerPins, k + 1, ps, startLoc, endLoc,
                IF PinConflictsAt(point, ps[dangerPins[k]], startLoc, endLoc)
                THEN SetAdd(conflicts, dangerPins[k])
                ELSE conflicts)

RECURSIVE ScanPath(_, _, _, _, _, _, _)
ScanPath(routePath, j, dangerPins, ps, startLoc, endLoc, conflicts) ==
  IF j > Len(routePath) THEN conflicts
  ELSE ScanPath(routePath, j + 1, dangerPins, ps, startLoc, endLoc,
                ScanPins(routePath[j], dangerPins, 1, ps, startLoc, endLoc, conflicts))

CheckRouteConflicts(routePath, ps, startLoc, endLoc) ==
  ScanPath(routePath, 1, FilterDanger(ps, 1), ps, startLoc, endLoc, <<>>)

-----------------------------------------------------------------------------
(* formatDuration *)

CeilDiv(a, b) == (a + b - 1) \div b

\* Mutant of DurationParts: Math.floor(adjustedSeconds / 60)
DurationPartsFloor(seconds) ==
  LET adjustedTenths == seconds * 12
      totalMinutes == adjustedTenths \div 600
  IN  IF totalMinutes < 60
      THEN [form |-> "min", mins |-> totalMinutes]
      ELSE [form |-> "hr", hours |-> totalMinutes \div 60, mins |-> totalMinutes % 60]

\* seconds * 1.2 is held in tenths of a second, so that the division by 60
\* is the division of the tenths by 600.
DurationParts(seconds) ==
  LET adjustedTenths == seconds * 12
      totalMinutes == CeilDiv(adjustedTenths, 600)
  IN  IF totalMinutes < 60
      THEN [form |-> "min", mins |-> totalMinutes]
      ELSE [form |-> "hr", hours |-> totalMinutes \div 60, mins |-> totalMinutes % 60]

\* Mutant of RenderDuration: a whole number of hours is shown without minutes
RenderDurationWholeHours(parts) ==
  IF parts.form = "min"
  THEN ToString(parts.mins) \o " min walk"
  ELSE IF parts.mins = 0
       THEN ToString(parts.hours) \o " hr walk"
       ELSE ToString(parts.hours) \o " hr " \o ToString(parts.mins) \o " min walk"

RenderDuration(parts) ==
  IF parts.form = "min"
  THEN ToString(parts.mins) \o " min walk"
  ELSE ToString(parts.hours) \o " hr " \o ToString(parts.mins) \o " min walk"

FormatDuration(seconds) == RenderDuration(DurationParts(seconds))

-----------------------------------------------------------------------------
(* fetchOSRMRoute: what the routing provider answered, and what the call yields *)

Route(lats, duration) ==
  [geometry |-> [coordinates |-> [i \in 1..Len(lats) |-> <<0, lats[i]>>]],
   duration |-> duration]

\* The coordinates of the request URL, in the order they are written into it
OSRMUrl(s, dest, waypoint) ==
  IF waypoint = Null THEN <<s, dest>> ELSE <<s, waypoint, dest>>

FetchOSRMRoute(reply) ==
  IF reply.kind = "error" THEN Null
  ELSE IF "routes" \notin DOMAIN reply.data THEN Null
  ELSE IF Len(reply.data.routes) = 0 THEN Null
  ELSE reply.data.routes[1]

-----------------------------------------------------------------------------
(* getSafeRoute: scoring and selection *)

CONFLICT_PENALTY == 1000000

offsets == <<300, 600, 1000, 1500>>

NumDetours == 2 * Len(offsets)

OffsetOf(i) == offsets[(i + 1) \div 2]

TypeOf(i) ==
  IF i % 2 = 1 THEN "left-" \o ToString(OffsetOf(i))
  ELSE "right-" \o ToString(OffsetOf(i))

\* Mutant of WaypointOf: both waypoints of an offset are on the left
WaypointOfLeftOnly(i, conflictPin, bearing) ==
  GetDestinationPoint(conflictPin, OffsetOf(i), bearing - 90)

WaypointOf(i, conflictPin, bearing) ==
  IF i % 2 = 1 THEN GetDestinationPoint(conflictPin, OffsetOf(i), bearing - 90)
  ELSE GetDestinationPoint(conflictPin, OffsetOf(i), bearing + 90)

\* Mutant of ConflictPin: the conflicting pin that comes first in the pin list
ConflictPinByListPosition(directConflicts, ps) ==
  ps[CHOOSE k \in {directConflicts[a] : a \in 1..Len(directConflicts)} :
       \A a \in 1..Len(directConflicts) : k <= directConflicts[a]]

\* const conflictPin = directConflicts[0]
ConflictPin(directConflicts, ps) == ps[directConflicts[1]]

\* The waypoints of the eight requests, in request order
DetourWaypoints(directConflicts, ps, s, d) ==
  LET conflictPin == ConflictPin(directConflicts, ps)
      bearing == GetBearing(s, d)
  IN  [i \in 1..NumDetours |-> WaypointOf(i, conflictPin, bearing)]

ToCoords(data) ==
  [i \in 1..Len(data.geometry.coordinates) |->
     LatLng(data.geometry.coordinates[i][2], data.geometry.coordinates[i][1])]

\* Mutant of Score: the penalty factor is left out
ScoreUnweighted(conflicts, data) == Len(conflicts) + data.duration

Score(conflicts, data) == Len(conflicts) * CONFLICT_PENALTY + data.duration

\* Mutant of Evaluate: a detour is taken to be free of conflicts
EvaluateAssumedClear(data, type, ps, s, d) ==
  IF data = Null THEN Null
  ELSE LET coords == ToCoords(data)
           conflicts == <<>>
       IN  [coords |-> coords, data |-> data, conflicts |-> conflicts,
            type |-> type, score |-> Score(conflicts, data)]

Evaluate(data, type, ps, s, d) ==
  IF data = Null THEN Null
  ELSE LET coords == ToCoords(data)
           conflicts == CheckRouteConflicts(coords, ps, s, d)
       IN  [coords |-> coords, data |-> data, conflicts |-> conflicts,
            type |-> type, score |-> Score(conflicts, data)]

DirectCandidate(data, ps, s, d) ==
  LET directCoordinates == ToCoords(data)
      directConflicts == CheckRouteConflicts(directCoordinates, ps, s, d)
  IN  [coords |-> directCoordinates, data |-> data, conflicts |-> directConflicts,
       type |-> "direct", score |-> Score(directConflicts, data)]

RECURSIVE PushResults(_, _, _, _, _, _)
PushResults(cands, res, i, ps, s, d) ==
  IF i > Len(res) THEN cands
  ELSE IF res[i].data # Null
       THEN PushResults(Append(cands, Evaluate(res[i].data, res[i].type, ps, s, d)),
                        res, i + 1, ps, s, d)
       ELSE PushResults(cands, res, i + 1, ps, s, d)

\* Mutant of InsertByScore: an element goes before the elements it compares
\* equal to (an unstable sort)
RECURSIVE InsertByScoreUnstable(_, _)
InsertByScoreUnstable(sorted, x) ==
  IF sorted = <<>> THEN <<x>>
  ELSE IF Head(sorted).score - x.score < 0
       THEN <<Head(sorted)>> \o InsertByScoreUnstable(Tail(sorted), x)
       ELSE <<x>> \o sorted

\* candidates.sort((a, b) => a.score - b.score): Array.prototype.sort is
\* stable, elements that compare equal keep their order.
RECURSIVE InsertByScore(_, _)
InsertByScore(sorted, x) ==
  IF sorted = <<>> THEN <<x>>
  ELSE IF Head(sorted).score - x.score <= 0
       THEN <<Head(sorted)>> \o InsertByScore(Tail(sorted), x)
       ELSE <<x>> \o sorted

\* Mutant of SortByScore: candidates.sort((a, b) => b.score - a.score)
RECURSIVE InsertByScoreDescending(_, _)
InsertByScoreDescending(sorted, x) ==
  IF sorted = <<>> THEN <<x>>
  ELSE IF x.score - Head(sorted).score <= 0
       THEN <<Head(sorted)>> \o InsertByScoreDescending(Tail(sorted), x)
       ELSE <<x>> \o sorted

RECURSIVE SortByScoreDescending(_)
SortByScoreDescending(s) ==
  IF s = <<>> THEN <<>>
  ELSE InsertByScoreDescending(SortByScoreDescending(SubSeq(s, 1, Len(s) - 1)), s[Len(s)])

RECURSIVE SortByScore(_)
SortByScore(s) ==
  IF s = <<>> THEN <<>>
  ELSE InsertByScore(SortByScore(SubSeq(s, 1, Len(s) - 1)), s[Len(s)])

-----------------------------------------------------------------------------
(* getSafeRoute: the narrative reply *)

NEUTRAL_NOTE == "Stay aware of your surroundings."

WARNING_NOTE == "Warning: Safe path not possible. This route still passes near reported danger zones."

APOLOGY_NOTE == "Could not calculate safe route. Please check your internet connection."

\* JSON.parse on the replies of AiTexts: ok = FALSE is a SyntaxError.
JsonParse(text) ==
  CASE text = "{\"safetyNote\": \"Route adjusted for safety.\"}" ->
         [ok |-> TRUE, value |-> [safetyNote |-> "Route adjusted for safety."]]
    [] text = "{\"safetyNote\": \"Stay aware of your surroundings.\"}" ->
         [ok |-> TRUE, value |-> [safetyNote |-> "Stay aware of your surroundings."]]
    [] text = "{\"safetyNote\": \"\"}" ->
         [ok |-> TRUE, value |-> [safetyNote |-> ""]]
    [] text = "{\"note\": \"ok\"}" ->
         [ok |-> TRUE, value |-> [note |-> "ok"]]
    [] OTHER -> [ok |-> FALSE]

\* Mutant of SafetyNoteOf: the override for remaining conflicts is left out
SafetyNoteOfNoOverride(text, dangerCount) ==
  LET parsed == IF text # "" THEN JsonParse(text) ELSE [ok |-> FALSE]
  IN  IF parsed.ok /\ "safetyNote" \in DOMAIN parsed.value
                   /\ parsed.value.safetyNote # ""
      THEN parsed.value.safetyNote
      ELSE NEUTRAL_NOTE

\* Mutant of SafetyNoteOf: the warning replaces the default note only, not a
\* neutral sentence that the reply itself gave
SafetyNoteOfKeepsReply(text, dangerCount) ==
  LET parsed == IF text # "" THEN JsonParse(text) ELSE [ok |-> FALSE]
  IN  IF parsed.ok /\ "safetyNote" \in DOMAIN parsed.value
                   /\ parsed.value.safetyNote # ""
      THEN parsed.value.safetyNote
      ELSE IF dangerCount > 0 THEN WARNING_NOTE ELSE NEUTRAL_NOTE

SafetyNoteOf(text, dangerCount) ==
  LET parsed == IF text # "" THEN JsonParse(text) ELSE [ok |-> FALSE]
      fromReply ==
        IF parsed.ok /\ "safetyNote" \in DOMAIN parsed.value
                     /\ parsed.value.safetyNote # ""
        THEN parsed.value.safetyNote
        ELSE NEUTRAL_NOTE
  IN  IF dangerCount > 0 /\ fromReply = NEUTRAL_NOTE THEN WARNING_NOTE ELSE fromReply

FailureResponse == [route |-> <<>>, safetyNote |-> APOLOGY_NOTE]

-----------------------------------------------------------------------------
(* pinService.ts, local storage branch: USE_FIREBASE is false for the         *)
(* FIREBASE_CONFIG of the file.  Pin coordinates of the store are in 1e-4     *)
(* degrees.                                                                   *)

StoredPin(id, lat, lng, level, description, timestamp, userId) ==
  [id |-> id, lat |-> lat, lng |-> lng, safetyLevel |-> level,
   description |-> description, timestamp |-> timestamp, userId |-> userId]

\* JSON.stringify of a pin array, and JSON.parse of what it produced
JsonStringify(ps) == [json |-> ps]

Corrupt == [garbage |-> TRUE]

\* getLocalPinsSync: an absent item and an unparsable item both read as []
GetLocalPinsSync(item) ==
  IF item = Null THEN <<>>
  ELSE IF "json" \in DOMAIN item THEN item.json
  ELSE <<>>

\* window.dispatchEvent(new Event('local-storage-update')): the localHandler of
\* every active subscription runs loadLocal on the item.
Dispatch(subs, item) ==
  [s \in DOMAIN subs |->
     IF subs[s].status = "active"
     THEN [subs[s] EXCEPT !.delivered = GetLocalPinsSync(item)]
     ELSE subs[s]]

ActiveSubscribers(subs) == {s \in DOMAIN subs : subs[s].status = "active"}

Seeds(centerLat, centerLng, now) ==
  << StoredPin("1", centerLat + 10, centerLng + 10, SAFE,
               "Well lit street, lots of people walking dogs.", now, "system"),
     StoredPin("2", centerLat - 15, centerLng - 5, CAUTION,
               "Streetlight flickering near the corner.", now, "system"),
     StoredPin("3", centerLat + 20, centerLng - 20, DANGER,
               "Construction site, sidewalk closed, very dark.", now, "system") >>

-----------------------------------------------------------------------------
(* The environment of one getSafeRoute invocation *)

StartLoc == LatLng(0, 0)

DestLoc == LatLng(1000, 0)

\* The hazard snapshot: two DANGER pins on the way, a CAUTION pin and a SAFE
\* pin on the way, and a DANGER pin 50 m from the start.
Hazards ==
  << Pin("p1", 500, DANGER), Pin("p2", 700, DANGER), Pin("p3", 300, CAUTION),
     Pin("p4", 50, DANGER), Pin("p5", 900, SAFE) >>

ClearPath == <<0, 300, 900, 1000>>

NearOnePath == <<0, 300, 360, 900, 1000>>

ThroughBothPath == <<0, 300, 500, 700, 1000>>

\* Replies of the routing provider to the direct request.
DirectReplies ==
  { [kind |-> "error"],
    [kind |-> "ok", data |-> [code |-> "NoRoute"]],
    [kind |-> "ok", data |-> [code |-> "Ok", routes |-> <<>>]],
    [kind |-> "ok", data |-> [code |-> "Ok", routes |-> <<Route(ClearPath, 300)>>]],
    [kind |-> "ok", data |-> [code |-> "Ok", routes |-> <<Route(NearOnePath, 300)>>]],
    [kind |-> "ok", data |-> [code |-> "Ok", routes |-> <<Route(ThroughBothPath, 300)>>]] }

\* Replies of the routing provider to the waypoint request i.  A request may
\* always fail or find no route.  Every offset may yield a clear path of 1200 s;
\* the 300 m detours may still come back near the first hazard, a little faster
\* than the direct path; the 1500 m detours may be clear and extremely long;
\* the left 1000 m detour may pass both hazards, much faster than the direct path.
DetourReplies(i) ==
  { [kind |-> "error"],
    [kind |-> "ok", data |-> [code |-> "Ok", routes |-> <<>>]],
    [kind |-> "ok", data |-> [code |-> "Ok", routes |-> <<Route(ClearPath, 1200)>>]] }
  \cup (IF OffsetOf(i) = 300
        THEN {[kind |-> "ok", data |-> [code |-> "Ok", routes |-> <<Route(NearOnePath, 200)>>]]}
        ELSE {})
  \cup (IF OffsetOf(i) = 1500
        THEN {[kind |-> "ok", data |-> [code |-> "Ok", routes |-> <<Route(ClearPath, 1000300)>>]]}
        ELSE {})
  \cup (IF TypeOf(i) = "left-1000"
        THEN {[kind |-> "ok", data |-> [code |-> "Ok", routes |-> <<Route(ThroughBothPath, 100)>>]]}
        ELSE {})

AiTexts ==
  { "",
    "Sorry, I cannot help with that.",
    "{\"note\": \"ok\"}",
    "{\"safetyNote\": \"\"}",
    "{\"safetyNote\": \"Route adjusted for safety.\"}",
    "{\"safetyNote\": \"Stay aware of your surroundings.\"}" }

AiOutcomes == {[kind |-> "reject"]} \cup {[kind |-> "reply", text |-> t] : t \in AiTexts}

-----------------------------------------------------------------------------
(* getSafeRoute as a state machine *)

RouteInit ==
  /\ pc = "start"
  /\ start = StartLoc
  /\ destinationLoc = DestLoc
  /\ pins = Hazards
  /\ directRouteData = Null
  /\ results = <<>>
  /\ candidates = <<>>
  /\ selectedRoute = Null
  /\ prompt = Null
  /\ aiOutcome = NotAsked
  /\ response = Null
  /\ osrmCalls = <<>>
  /\ aiCalls = 0
  /\ settledOutOfOrder = FALSE

\* const directRouteData = await fetchOSRMRoute(start, destinationLoc): the call
CallDirect ==
  /\ pc = "start"
  /\ pc' = "awaitDirect"
  /\ osrmCalls' = Append(osrmCalls, [type |-> "direct",
                                      url |-> OSRMUrl(start, destinationLoc, Null)])
  /\ UNCHANGED <<start, destinationLoc, pins, directRouteData, results, candidates,
                 selectedRoute, prompt, aiOutcome, response, aiCalls,
                 settledOutOfOrder>>

\* Mutant of AskNarrative: isDetour tells whether detours were tried
AskNarrativeDetoursTried(sel) ==
  /\ selectedRoute' = sel
  /\ prompt' = [duration |-> FormatDuration(sel.data.duration),
                dangerCount |-> Len(sel.conflicts),
                isDetour |-> (results # <<>>)]
  /\ aiCalls' = aiCalls + 1
  /\ pc' = "awaitNarrative"

\* Steps 4 and 5 up to the await of ai.models.generateContent
AskNarrative(sel) ==
  /\ selectedRoute' = sel
  /\ prompt' = [duration |-> FormatDuration(sel.data.duration),
                dangerCount |-> Len(sel.conflicts),
                isDetour |-> (sel.type # "direct")]
  /\ aiCalls' = aiCalls + 1
  /\ pc' = "awaitNarrative"

\* The direct request settles; getSafeRoute runs to its next await or to its end.
DirectSettles ==
  /\ pc = "awaitDirect"
  /\ \E reply \in DirectReplies :
       LET data == FetchOSRMRoute(reply) IN
       /\ directRouteData' = data
       /\ IF data = Null
          THEN /\ response' = FailureResponse
               /\ pc' = "done"
               /\ UNCHANGED <<results, candidates, selectedRoute, prompt, osrmCalls, aiCalls>>
          ELSE LET direct == DirectCandidate(data, pins, start, destinationLoc) IN
               IF Len(direct.conflicts) > 0
               THEN LET waypoints == DetourWaypoints(direct.conflicts, pins,
                                                     start, destinationLoc)
                    IN  /\ selectedRoute' = direct
                        /\ results' = [i \in 1..NumDetours |-> Pending]
                        /\ osrmCalls' = osrmCalls \o
                              [i \in 1..NumDetours |->
                                 [type |-> TypeOf(i),
                                  url |-> OSRMUrl(start, destinationLoc, waypoints[i])]]
                        /\ pc' = "awaitDetours"
                        /\ UNCHANGED <<candidates, prompt, response, aiCalls>>
               ELSE /\ AskNarrative(direct)
                    /\ UNCHANGED <<results, candidates, response, osrmCalls>>
  /\ UNCHANGED <<start, destinationLoc, pins, aiOutcome, settledOutOfOrder>>

\* Mutant of DetourSettles: the results array is filled in order of arrival
DetourSettlesInArrivalOrder ==
  /\ pc = "awaitDetours"
  /\ \E i \in 1..NumDetours : \E reply \in DetourReplies(i) :
       LET arrived(j) == \E k \in 1..NumDetours :
                           results[k] # Pending /\ results[k].type = TypeOf(j)
           slot == CHOOSE k \in 1..NumDetours :
                     results[k] = Pending /\ \A l \in 1..(k - 1) : results[l] # Pending
       IN  /\ ~arrived(i)
           /\ results' = [results EXCEPT ![slot] =
                            [data |-> FetchOSRMRoute(reply), type |-> TypeOf(i)]]
           /\ settledOutOfOrder' =
                (settledOutOfOrder \/ \E j \in 1..(i - 1) : ~arrived(j))
  /\ UNCHANGED <<pc, start, destinationLoc, pins, directRouteData, candidates,
                 selectedRoute, prompt, aiOutcome, response, osrmCalls, aiCalls>>

\* One of the eight waypoint requests settles: .then(data => ({ data, type }))
DetourSettles ==
  /\ pc = "awaitDetours"
  /\ \E i \in 1..NumDetours : \E reply \in DetourReplies(i) :
       /\ results[i] = Pending
       /\ results' = [results EXCEPT ![i] = [data |-> FetchOSRMRoute(reply), type |-> TypeOf(i)]]
       /\ settledOutOfOrder' =
            (settledOutOfOrder \/ \E j \in 1..(i - 1) : results[j] = Pending)
  /\ UNCHANGED <<pc, start, destinationLoc, pins, directRouteData, candidates,
                 selectedRoute, prompt, aiOutcome, response, osrmCalls, aiCalls>>

\* Mutant of JoinDetours: a failed waypoint request rejects Promise.all, and
\* the rejection is caught by the catch of getSafeRoute
JoinDetoursAllOrNothing ==
  /\ pc = "awaitDetours"
  /\ \A i \in 1..NumDetours : results[i] # Pending
  /\ IF \E i \in 1..NumDetours : results[i].data = Null
     THEN /\ response' = FailureResponse
          /\ pc' = "done"
          /\ UNCHANGED <<candidates, selectedRoute, prompt, aiCalls>>
     ELSE LET sorted == SortByScore(PushResults(<<selectedRoute>>, results, 1,
                                                pins, start, destinationLoc))
          IN  /\ candidates' = sorted
              /\ AskNarrative(sorted[1])
              /\ UNCHANGED response
  /\ UNCHANGED <<start, destinationLoc, pins, directRouteData, results, aiOutcome,
                 osrmCalls, settledOutOfOrder>>

\* Mutant of JoinDetours: Promise.race in place of Promise.all; the requests
\* still outstanding count as absent
JoinDetoursOnFirstSettled ==
  /\ pc = "awaitDetours"
  /\ \E i \in 1..NumDetours : results[i] # Pending
  /\ LET arrived == [i \in 1..NumDetours |->
                       IF results[i] = Pending
                       THEN [data |-> Null, type |-> TypeOf(i)]
                       ELSE results[i]]
         sorted == SortByScore(PushResults(<<selectedRoute>>, arrived, 1,
                                           pins, start, destinationLoc))
     IN  /\ candidates' = sorted
         /\ AskNarrative(sorted[1])
  /\ UNCHANGED <<start, destinationLoc, pins, directRouteData, results, aiOutcome,
                 response, osrmCalls, settledOutOfOrder>>

\* Mutant of JoinDetours: when the winner still has conflicts, a second round
\* of waypoint requests is started around the winner's first conflict
JoinDetoursAgain ==
  /\ pc = "awaitDetours"
  /\ \A i \in 1..NumDetours : results[i] # Pending
  /\ LET sorted == SortByScore(PushResults(<<selectedRoute>>, results, 1,
                                           pins, start, destinationLoc))
     IN  /\ candidates' = sorted
         /\ IF Len(sorted[1].conflicts) > 0 /\ Len(osrmCalls) < 2 * NumDetours
            THEN /\ selectedRoute' = sorted[1]
                 /\ results' = [i \in 1..NumDetours |-> Pending]
                 /\ osrmCalls' = osrmCalls \o
                       [i \in 1..NumDetours |->
                          [type |-> TypeOf(i),
                           url |-> OSRMUrl(start, destinationLoc,
                                           DetourWaypoints(sorted[1].conflicts, pins,
                                                           start, destinationLoc)[i])]]
                 /\ UNCHANGED <<pc, prompt, aiCalls>>
            ELSE /\ AskNarrative(sorted[1])
                 /\ UNCHANGED <<results, osrmCalls>>
  /\ UNCHANGED <<start, destinationLoc, pins, directRouteData, aiOutcome,
                 response, settledOutOfOrder>>

\* Promise.all resolves: evaluate, sort, select, and ask for the narrative.
JoinDetours ==
  /\ pc = "awaitDetours"
  /\ \A i \in 1..NumDetours : results[i] # Pending
  /\ LET sorted == SortByScore(PushResults(<<selectedRoute>>, results, 1,
                                           pins, start, destinationLoc))
     IN  /\ candidates' = sorted
         /\ AskNarrative(sorted[1])
  /\ UNCHANGED <<start, destinationLoc, pins, directRouteData, results, aiOutcome,
                 response, osrmCalls, settledOutOfOrder>>

\* Mutant of NarrativeSettles: a rejection of generateContent is not caught
NarrativeSettlesUncaught ==
  /\ pc = "awaitNarrative"
  /\ \E o \in AiOutcomes :
       /\ aiOutcome' = o
       /\ response' =
            IF o.kind = "reject" THEN [rejected |-> "generateContent failed"]
            ELSE [route |-> selectedRoute.coords,
                  duration |-> prompt.duration,
                  safetyNote |-> SafetyNoteOf(o.text, prompt.dangerCount)]
  /\ pc' = "done"
  /\ UNCHANGED <<start, destinationLoc, pins, directRouteData, results, candidates,
                 selectedRoute, prompt, osrmCalls, aiCalls, settledOutOfOrder>>

\* The narrative request settles; getSafeRoute returns.
NarrativeSettles ==
  /\ pc = "awaitNarrative"
  /\ \E o \in AiOutcomes :
       /\ aiOutcome' = o
       /\ response' =
            IF o.kind = "reject" THEN FailureResponse
            ELSE [route |-> selectedRoute.coords,
                  duration |-> prompt.duration,
                  safetyNote |-> SafetyNoteOf(o.text, prompt.dangerCount)]
  /\ pc' = "done"
  /\ UNCHANGED <<start, destinationLoc, pins, directRouteData, results, candidates,
                 selectedRoute, prompt, osrmCalls, aiCalls, settledOutOfOrder>>

PinIdle ==
  /\ storage = Null
  /\ subscribers = <<>>
  /\ lastOp = Null

AppIdle ==
  /\ app = Null
  /\ routeCalls = <<>>
  /\ searchTimer = Null
  /\ searchCalls = <<>>

Init ==
  /\ RouteInit
  /\ conflictCall = Null
  /\ formatCall = Null
  /\ distanceCall = Null
  /\ PinIdle
  /\ AppIdle

Next ==
  \/ CallDirect /\ UNCHANGED <<conflictCall, formatCall, distanceCall, pinVars, appVars>>
  \/ DirectSettles /\ UNCHANGED <<conflictCall, formatCall, distanceCall, pinVars, appVars>>
  \/ DetourSettles /\ UNCHANGED <<conflictCall, formatCall, distanceCall, pinVars, appVars>>
  \/ JoinDetours /\ UNCHANGED <<conflictCall, formatCall, distanceCall, pinVars, appVars>>
  \/ NarrativeSettles /\ UNCHANGED <<conflictCall, formatCall, distanceCall, pinVars, appVars>>

Spec == Init /\ [][Next]_vars

-----------------------------------------------------------------------------
(* checkRouteConflicts applied to bounded inputs *)

MaxPathLen == 2

MaxPins == 2

SeqsUpTo(S, n) == UNION {[1..k -> S] : k \in 0..n}

\* Path points and pins around the two thresholds, for terminals at 0 and 400:
\* 81 is 149 m from 230 and 150 m from 231; 80 and 320 are 80 m from a terminal.
PathLats == {0, 230, 231, 400}

PinLats == {80, 81, 320}

TerminalLats == {0, 400}

ConflictInit ==
  \E path \in SeqsUpTo(PathLats, MaxPathLen),
     ps \in SeqsUpTo(PinLats \X SafetyLevel, MaxPins),
     s \in TerminalLats, e \in TerminalLats :
       conflictCall =
         [routePath |-> [j \in 1..Len(path) |-> LatLng(path[j], 0)],
          pins |-> [k \in 1..Len(ps) |-> Pin(ToString(k), ps[k][1], ps[k][2])],
          startLoc |-> LatLng(s, 0),
          endLoc |-> LatLng(e, 0),
          returned |-> FALSE,
          result |-> <<>>,
          conflictPin |-> Null,
          waypoints |-> <<>>]

ApplyCheckRouteConflicts ==
  /\ ~conflictCall.returned
  /\ conflictCall' =
       [conflictCall EXCEPT
          !.returned = TRUE,
          !.result = CheckRouteConflicts(conflictCall.routePath, conflictCall.pins,
                                         conflictCall.startLoc, conflictCall.endLoc)]
  /\ UNCHANGED <<routeVars, formatCall, distanceCall, pinVars, appVars>>

InitConflicts ==
  /\ RouteInit
  /\ ConflictInit
  /\ formatCall = Null
  /\ distanceCall = Null
  /\ PinIdle
  /\ AppIdle

\* if (directConflicts.length > 0): the focus hazard and the eight waypoints,
\* for the conflicts of the call taken as those of a direct path
AnchorDetours ==
  /\ conflictCall.returned
  /\ Len(conflictCall.result) > 0
  /\ conflictCall.conflictPin = Null
  /\ conflictCall' =
       [conflictCall EXCEPT
          !.conflictPin = ConflictPin(conflictCall.result, conflictCall.pins),
          !.waypoints = DetourWaypoints(conflictCall.result, conflictCall.pins,
                                        conflictCall.startLoc, conflictCall.endLoc)]
  /\ UNCHANGED <<routeVars, formatCall, distanceCall, pinVars, appVars>>

NextConflicts ==
  \/ ApplyCheckRouteConflicts
  \/ AnchorDetours

SpecConflicts == InitConflicts /\ [][NextConflicts]_vars

-----------------------------------------------------------------------------
(* formatDuration applied to bounded inputs *)

MaxSeconds == 7300

FormatInit ==
  \E s \in 0..MaxSeconds :
    formatCall = [seconds |-> s, returned |-> FALSE, parts |-> Null, text |-> ""]

ApplyFormatDuration ==
  /\ ~formatCall.returned
  /\ formatCall' =
       [formatCall EXCEPT
          !.returned = TRUE,
          !.parts = DurationParts(formatCall.seconds),
          !.text = FormatDuration(formatCall.seconds)]
  /\ UNCHANGED <<routeVars, conflictCall, distanceCall, pinVars, appVars>>

InitFormat ==
  /\ RouteInit
  /\ conflictCall = Null
  /\ FormatInit
  /\ distanceCall = Null
  /\ PinIdle
  /\ AppIdle

NextFormat == ApplyFormatDuration

SpecFormat == InitFormat /\ [][NextFormat]_vars

-----------------------------------------------------------------------------
(* The pin store as a state machine (local storage branch) *)

MaxStore == 3

Subscribers == {"s1", "s2"}

\* Outcomes of Math.random().toString(36).substring(2, 9)
RandomIds == {"k3f9a2x", "p0q8w1z"}

SeedIds == {"1", "2", "3"}

\* Outcomes of Date.now()
Timestamps == {1, 2}

\* DEFAULT_CENTER of App.tsx, in 1e-4 degrees
Centers == {[lat |-> 377749, lng |-> -1224194]}

\* What PinCreationModal submits: Omit<Pin, 'id' | 'timestamp'>
Submissions ==
  { [lat |-> 377750, lng |-> -1224190, safetyLevel |-> DANGER,
     description |-> "Dark alley", userId |-> "user"],
    [lat |-> 377760, lng |-> -1224180, safetyLevel |-> SAFE,
     description |-> "No description provided.", userId |-> "user"] }

PinsInit ==
  /\ storage \in {Null, Corrupt}
  /\ subscribers = [s \in Subscribers |-> [status |-> "none", delivered |-> <<>>]]
  /\ lastOp = [name |-> "none", arg |-> "", before |-> 0, notified |-> {}]

\* subscribeToPins(callback): the initial loadLocal, then the listeners
SubscribeToPins(s) ==
  /\ subscribers[s].status = "none"
  /\ subscribers' = [subscribers EXCEPT
                       ![s] = [status |-> "active", delivered |-> GetLocalPinsSync(storage)]]
  /\ lastOp' = [name |-> "subscribe", arg |-> s,
                before |-> Len(GetLocalPinsSync(storage)), notified |-> {s}]
  /\ UNCHANGED storage

\* the function returned by subscribeToPins: both listeners are removed.
\* delivered is kept for active subscriptions only.
Unsubscribe(s) ==
  /\ subscribers[s].status = "active"
  /\ subscribers' = [subscribers EXCEPT ![s] = [status |-> "closed", delivered |-> <<>>]]
  /\ lastOp' = [name |-> "unsubscribe", arg |-> s,
                before |-> Len(GetLocalPinsSync(storage)), notified |-> {}]
  /\ UNCHANGED storage

\* Mutant of AddPin: the new pin is stored without the
\* 'local-storage-update' event being dispatched
AddPinSilently(pin, id, now) ==
  LET newPin == StoredPin(id, pin.lat, pin.lng, pin.safetyLevel,
                          pin.description, now, pin.userId)
      currentPins == GetLocalPinsSync(storage)
      updatedPins == Append(currentPins, newPin)
  IN  /\ Len(currentPins) < MaxStore
      /\ storage' = JsonStringify(updatedPins)
      /\ lastOp' = [name |-> "addPin", arg |-> id,
                    before |-> Len(currentPins), notified |-> {}]
      /\ UNCHANGED subscribers

\* Mutant of AddPin: a stored pin with the same identifier is overwritten
AddPinUpsert(pin, id, now) ==
  LET newPin == StoredPin(id, pin.lat, pin.lng, pin.safetyLevel,
                          pin.description, now, pin.userId)
      currentPins == GetLocalPinsSync(storage)
      updatedPins ==
        IF \E i \in 1..Len(currentPins) : currentPins[i].id = id
        THEN [i \in 1..Len(currentPins) |->
                IF currentPins[i].id = id THEN newPin ELSE currentPins[i]]
        ELSE Append(currentPins, newPin)
  IN  /\ Len(currentPins) < MaxStore
      /\ storage' = JsonStringify(updatedPins)
      /\ subscribers' = Dispatch(subscribers, storage')
      /\ lastOp' = [name |-> "addPin", arg |-> id,
                    before |-> Len(currentPins),
                    notified |-> ActiveSubscribers(subscribers)]

\* addPin(pin), else branch
AddPin(pin, id, now) ==
  LET newPin == StoredPin(id, pin.lat, pin.lng, pin.safetyLevel,
                          pin.description, now, pin.userId)
      currentPins == GetLocalPinsSync(storage)
      updatedPins == Append(currentPins, newPin)
  IN  /\ Len(currentPins) < MaxStore
      /\ storage' = JsonStringify(updatedPins)
      /\ subscribers' = Dispatch(subscribers, storage')
      /\ lastOp' = [name |-> "addPin", arg |-> id,
                    before |-> Len(currentPins),
                    notified |-> ActiveSubscribers(subscribers)]

\* Mutant of RemovePin: only the first pin with the identifier is removed
RemovePinFirstMatch(pinId) ==
  LET currentPins == GetLocalPinsSync(storage)
      hits == {i \in 1..Len(currentPins) : currentPins[i].id = pinId}
      first == CHOOSE i \in hits : \A j \in hits : i <= j
      updatedPins ==
        IF hits = {} THEN currentPins
        ELSE SubSeq(currentPins, 1, first - 1) \o
             SubSeq(currentPins, first + 1, Len(currentPins))
  IN  /\ storage' = JsonStringify(updatedPins)
      /\ subscribers' = Dispatch(subscribers, storage')
      /\ lastOp' = [name |-> "removePin", arg |-> pinId,
                    before |-> Len(currentPins),
                    notified |-> ActiveSubscribers(subscribers)]

\* removePin(pinId), else branch
RemovePin(pinId) ==
  LET currentPins == GetLocalPinsSync(storage)
      updatedPins == SelectSeq(currentPins, LAMBDA p : p.id # pinId)
  IN  /\ storage' = JsonStringify(updatedPins)
      /\ subscribers' = Dispatch(subscribers, storage')
      /\ lastOp' = [name |-> "removePin", arg |-> pinId,
                    before |-> Len(currentPins),
                    notified |-> ActiveSubscribers(subscribers)]

\* seedData(centerLat, centerLng): only an empty local store is seeded
SeedData(center, now) ==
  IF Len(GetLocalPinsSync(storage)) = 0
  THEN /\ storage' = JsonStringify(Seeds(center.lat, center.lng, now))
       /\ subscribers' = Dispatch(subscribers, storage')
       /\ lastOp' = [name |-> "seedData", arg |-> "seeded", before |-> 0,
                     notified |-> ActiveSubscribers(subscribers)]
  ELSE /\ lastOp' = [name |-> "seedData", arg |-> "skipped",
                     before |-> Len(GetLocalPinsSync(storage)), notified |-> {}]
       /\ UNCHANGED <<storage, subscribers>>

InitPins ==
  /\ RouteInit
  /\ conflictCall = Null
  /\ formatCall = Null
  /\ distanceCall = Null
  /\ PinsInit
  /\ AppIdle

NextPins ==
  \/ \E s \in Subscribers : SubscribeToPins(s) /\ UNCHANGED <<routeVars, conflictCall, formatCall, distanceCall, appVars>>
  \/ \E s \in Subscribers : Unsubscribe(s) /\ UNCHANGED <<routeVars, conflictCall, formatCall, distanceCall, appVars>>
  \/ \E pin \in Submissions, id \in RandomIds, now \in Timestamps :
        AddPin(pin, id, now) /\ UNCHANGED <<routeVars, conflictCall, formatCall, distanceCall, appVars>>
  \/ \E pinId \in RandomIds \cup SeedIds :
        RemovePin(pinId) /\ UNCHANGED <<routeVars, conflictCall, formatCall, distanceCall, appVars>>
  \/ \E center \in Centers, now \in Timestamps :
        SeedData(center, now) /\ UNCHANGED <<routeVars, conflictCall, formatCall, distanceCall, appVars>>

SpecPins == InitPins /\ [][NextPins]_vars

-----------------------------------------------------------------------------
(* getDistanceMeters on the sphere.  The coordinates of this section are in *)
(* degrees, on a grid of multiples of 60 degrees, where every sine and      *)
(* cosine the formula takes has a rational square: a is computed exactly,   *)
(* in sixteenths.                                                           *)

\* 4 * Math.sin(x / 2) * Math.sin(x / 2), for x a multiple of 60 degrees
SinHalfSquared(deg) ==
  CASE deg % 360 = 0 -> 0
    [] deg % 360 = 60 -> 1
    [] deg % 360 = 120 -> 3
    [] deg % 360 = 180 -> 4
    [] deg % 360 = 240 -> 3
    [] deg % 360 = 300 -> 1

\* 2 * Math.cos(x), for x a multiple of 60 degrees
TwiceCos(deg) ==
  CASE deg % 360 = 0 -> 2
    [] deg % 360 = 60 -> 1
    [] deg % 360 = 120 -> -1
    [] deg % 360 = 180 -> -2
    [] deg % 360 = 240 -> -1
    [] deg % 360 = 300 -> 1

\* Mutant of HaversineA: Math.cos(phi1) * Math.cos(phi1)
HaversineAOneLatitude(p1, p2) ==
  4 * SinHalfSquared(p2.lat - p1.lat)
    + TwiceCos(p1.lat) * TwiceCos(p1.lat) * SinHalfSquared(p2.lng - p1.lng)

\* 16 * a
HaversineA(p1, p2) ==
  4 * SinHalfSquared(p2.lat - p1.lat)
    + TwiceCos(p1.lat) * TwiceCos(p2.lat) * SinHalfSquared(p2.lng - p1.lng)

\* R * 2 * Math.atan2(Math.sqrt(a), Math.sqrt(1 - a)) for a = k / 16, R = 6371e3,
\* rounded to the metre
ArcMeters ==
  << 3219652, 4604540, 5706280, 6671696, 7558552, 8397717, 9209080, 10007543,
     10806007, 11617369, 12456535, 13343391, 14308806, 15410547, 16795435,
     20015087 >>

GreatCircleMeters(p1, p2) ==
  LET a == HaversineA(p1, p2) IN IF a = 0 THEN 0 ELSE ArcMeters[a]

GridLats == {-60, 0, 60}

GridLngs == {-120, -60, 0, 60, 120, 180}

DistanceInit ==
  \E lat1 \in GridLats, lng1 \in GridLngs, lat2 \in GridLats, lng2 \in GridLngs :
    distanceCall = [p1 |-> LatLng(lat1, lng1), p2 |-> LatLng(lat2, lng2),
                    returned |-> FALSE, result |-> 0]

ApplyGetDistanceMeters ==
  /\ ~distanceCall.returned
  /\ distanceCall' =
       [distanceCall EXCEPT
          !.returned = TRUE,
          !.result = GreatCircleMeters(distanceCall.p1, distanceCall.p2)]
  /\ UNCHANGED <<routeVars, conflictCall, formatCall, pinVars, appVars>>

InitDistance ==
  /\ RouteInit
  /\ conflictCall = Null
  /\ formatCall = Null
  /\ DistanceInit
  /\ PinIdle
  /\ AppIdle

NextDistance == ApplyGetDistanceMeters

SpecDistance == InitDistance /\ [][NextDistance]_vars

-----------------------------------------------------------------------------
(* The App component as a state machine.  app holds the useState values that *)
(* the navigation and reporting flows use; a handler, the render that        *)
(* follows it and the effects of that render are one step.  The route        *)
(* state is <<>> where the component holds undefined: no empty array is      *)
(* ever stored in it.  showAdvisor, selectedPin and isDeleting are left out. *)

MaxRouteCalls == 2

MaxSearchCalls == 1

\* center: DEFAULT_CENTER, or where geolocation put it
Center == StartLoc

PINNED_NAME == "Pinned Location"

\* What the user may type into the search field
TypedNames == {"", "ca", "cafe"}

\* destinationName.length
NameLength(name) ==
  CASE name = "" -> 0
    [] name = "ca" -> 2
    [] name = "cafe" -> 4
    [] name = PINNED_NAME -> 15

PlaceSuggestion(query) == [name |-> query, location |-> DestLoc, address |-> "1 Main St"]

\* What searchPlaces may resolve with; a failed search resolves with []
SearchResults(query) == {<<>>, <<PlaceSuggestion(query)>>}

\* Where the user may tap the map
MapLocations == {DestLoc}

\* The pin lists the subscription may deliver
Snapshots == {<<>>, <<Pin("p1", 500, DANGER)>>}

AppDirectReplies ==
  { [kind |-> "error"],
    [kind |-> "ok", data |-> [code |-> "Ok", routes |-> <<Route(ThroughBothPath, 300)>>]] }

\* The settled results of the eight waypoint requests: all failed, or the
\* first one with a route that is clear of p1, or with one that is near it
AppDetourResults ==
  { [i \in 1..NumDetours |->
       [data |-> IF i = 1 THEN first ELSE Null, type |-> TypeOf(i)]] :
    first \in {Null, Route(ClearPath, 1200), Route(NearOnePath, 200)} }

AppAiOutcomes ==
  { [kind |-> "reject"],
    [kind |-> "reply", text |-> "{\"safetyNote\": \"Route adjusted for safety.\"}"] }

AppInit ==
  /\ app = [pins |-> <<>>, mode |-> "MENU", destinationName |-> "",
            destinationLoc |-> Null, suggestions |-> <<>>, isSearching |-> FALSE,
            route |-> <<>>, routeInfo |-> Null, isRouting |-> FALSE,
            tempPinLocation |-> Null]
  /\ routeCalls = [c \in 1..MaxRouteCalls |-> Null]
  /\ searchTimer = Null
  /\ searchCalls = <<>>

\* The dependencies of the debounced-search effect (center does not change)
SearchDeps(a) == <<a.destinationName, a.mode, a.destinationLoc>>

\* The render of state new after state old, with the debounced-search effect:
\* when a dependency changed, the cleanup clears the timer and the effect
\* either empties the suggestions or arms a timer that holds destinationName
Render(old, new) ==
  IF SearchDeps(old) = SearchDeps(new)
  THEN [app |-> new, searchTimer |-> searchTimer]
  ELSE IF \/ new.mode # "NAVIGATING_INPUT"
          \/ new.destinationName = ""
          \/ new.destinationLoc # Null
       THEN [app |-> [new EXCEPT !.suggestions = <<>>], searchTimer |-> Null]
       ELSE [app |-> new, searchTimer |-> [query |-> new.destinationName]]

Commit(new) ==
  /\ app' = Render(app, new).app
  /\ searchTimer' = Render(app, new).searchTimer

\* Mutant of PinsArgument: the evaluation reads the pins of the component
PinsOfComponent(call) == app.pins

\* The pins parameter of the getSafeRoute invocation of a call
PinsArgument(call) == call.pins

\* calculateRoute up to the first await inside getSafeRoute; a is the state
\* that the setters of the calling handler have produced.  destName goes into
\* the text of the narrative prompt only and is not kept.
CalculateRoute(a, destLoc, destName) ==
  /\ \E c \in 1..MaxRouteCalls : routeCalls[c] = Null
  /\ LET c == CHOOSE c \in 1..MaxRouteCalls :
                 routeCalls[c] = Null /\ \A d \in 1..(c - 1) : routeCalls[d] # Null
     IN  routeCalls' =
           [routeCalls EXCEPT
              ![c] = [start |-> Center, destinationLoc |-> destLoc,
                      pins |-> app.pins,
                      stage |-> "awaitDirect", candidates |-> <<>>,
                      selectedRoute |-> Null]]
  /\ Commit([a EXCEPT !.isRouting = TRUE])

\* calculateRoute after await getSafeRoute
FinishRoute(c, result) ==
  /\ routeCalls' = [routeCalls EXCEPT ![c] = Null]
  /\ Commit(IF Len(result.route) > 0
            THEN [app EXCEPT
                    !.route = result.route,
                    !.routeInfo = [duration |-> result.duration,
                                   safetyNote |-> result.safetyNote],
                    !.mode = "NAVIGATING_SHOW",
                    !.isRouting = FALSE]
            ELSE [app EXCEPT !.isRouting = FALSE])

\* The direct request of call c settles
RouteDirectSettles(c) ==
  /\ routeCalls[c] # Null
  /\ routeCalls[c].stage = "awaitDirect"
  /\ \E reply \in AppDirectReplies :
       LET call == routeCalls[c]
           data == FetchOSRMRoute(reply)
       IN  IF data = Null
           THEN FinishRoute(c, FailureResponse)
           ELSE LET direct == DirectCandidate(data, PinsArgument(call), call.start,
                                              call.destinationLoc)
                IN  /\ routeCalls' =
                         [routeCalls EXCEPT
                            ![c] = [call EXCEPT
                                      !.stage = IF Len(direct.conflicts) > 0
                                                THEN "awaitDetours"
                                                ELSE "awaitNarrative",
                                      !.candidates = <<direct>>,
                                      !.selectedRoute = direct]]
                    /\ UNCHANGED <<app, searchTimer>>
  /\ UNCHANGED searchCalls

\* Promise.all of call c resolves
RouteDetoursSettle(c) ==
  /\ routeCalls[c] # Null
  /\ routeCalls[c].stage = "awaitDetours"
  /\ \E results_ \in AppDetourResults :
       LET call == routeCalls[c]
           sorted == SortByScore(PushResults(<<call.selectedRoute>>, results_, 1,
                                             PinsArgument(call), call.start,
                                             call.destinationLoc))
       IN  routeCalls' =
             [routeCalls EXCEPT
                ![c] = [call EXCEPT !.stage = "awaitNarrative",
                                    !.candidates = sorted,
                                    !.selectedRoute = sorted[1]]]
  /\ UNCHANGED <<app, searchTimer, searchCalls>>

\* The narrative request of call c settles, getSafeRoute returns and
\* calculateRoute resumes
RouteNarrativeSettles(c) ==
  /\ routeCalls[c] # Null
  /\ routeCalls[c].stage = "awaitNarrative"
  /\ \E o \in AppAiOutcomes :
       LET sel == routeCalls[c].selectedRoute IN
       FinishRoute(c, IF o.kind = "reject" THEN FailureResponse
                      ELSE [route |-> sel.coords,
                            duration |-> FormatDuration(sel.data.duration),
                            safetyNote |-> SafetyNoteOf(o.text, Len(sel.conflicts))])
  /\ UNCHANGED searchCalls

\* subscribeToPins callback: setPins(updatedPins)
PinsUpdated ==
  /\ \E updatedPins \in Snapshots \ {app.pins} :
       Commit([app EXCEPT !.pins = updatedPins])
  /\ UNCHANGED <<routeCalls, searchCalls>>

\* The timer of the debounced-search effect fires
SearchTimerFires ==
  /\ searchTimer # Null
  /\ NameLength(searchTimer.query) > 2 => Len(searchCalls) < MaxSearchCalls
  /\ searchTimer' = Null
  /\ IF NameLength(searchTimer.query) > 2
     THEN /\ app' = [app EXCEPT !.isSearching = TRUE]
          /\ searchCalls' = Append(searchCalls, searchTimer.query)
     ELSE UNCHANGED <<app, searchCalls>>
  /\ UNCHANGED routeCalls

\* await searchPlaces resolves: setSuggestions(results); setIsSearching(false)
SearchSettles(i) ==
  /\ i \in 1..Len(searchCalls)
  /\ \E found \in SearchResults(searchCalls[i]) :
       Commit([app EXCEPT !.suggestions = found, !.isSearching = FALSE])
  /\ searchCalls' = SubSeq(searchCalls, 1, i - 1) \o
                    SubSeq(searchCalls, i + 1, Len(searchCalls))
  /\ UNCHANGED routeCalls

\* Main menu, Navigate
ClickNavigate ==
  /\ app.mode = "MENU"
  /\ Commit([app EXCEPT !.mode = "NAVIGATING_INPUT"])
  /\ UNCHANGED <<routeCalls, searchCalls>>

\* Main menu, Report
ClickReport ==
  /\ app.mode = "MENU"
  /\ Commit([app EXCEPT !.mode = "REPORTING"])
  /\ UNCHANGED <<routeCalls, searchCalls>>

\* Reporting banner, Cancel
CancelReport ==
  /\ app.mode = "REPORTING"
  /\ app.tempPinLocation = Null
  /\ Commit([app EXCEPT !.mode = "MENU"])
  /\ UNCHANGED <<routeCalls, searchCalls>>

\* handleMapClick, in the two modes in which it sets a location
HandleMapClick(loc) ==
  /\ \/ /\ app.mode = "REPORTING"
        /\ app.tempPinLocation = Null
        /\ Commit([app EXCEPT !.tempPinLocation = loc])
     \/ /\ app.mode = "NAVIGATING_PICK_MAP"
        /\ Commit([app EXCEPT !.destinationLoc = loc,
                              !.destinationName = PINNED_NAME])
  /\ UNCHANGED <<routeCalls, searchCalls>>

\* PinCreationModal onClose
ClosePinModal ==
  /\ app.mode = "REPORTING"
  /\ app.tempPinLocation # Null
  /\ Commit([app EXCEPT !.tempPinLocation = Null])
  /\ UNCHANGED <<routeCalls, searchCalls>>

\* handlePinSubmit; the new pin list arrives through PinsUpdated
HandlePinSubmit ==
  /\ app.mode = "REPORTING"
  /\ app.tempPinLocation # Null
  /\ Commit([app EXCEPT !.tempPinLocation = Null, !.mode = "MENU"])
  /\ UNCHANGED <<routeCalls, searchCalls>>

\* Navigation input, back arrow
BackFromInput ==
  /\ app.mode = "NAVIGATING_INPUT"
  /\ Commit([app EXCEPT !.mode = "MENU"])
  /\ UNCHANGED <<routeCalls, searchCalls>>

\* Navigation input, onChange of the search field
TypeDestination(name) ==
  /\ app.mode = "NAVIGATING_INPUT"
  /\ name # app.destinationName
  /\ Commit([app EXCEPT !.destinationName = name, !.destinationLoc = Null])
  /\ UNCHANGED <<routeCalls, searchCalls>>

HandleClearSearch ==
  /\ app.mode = "NAVIGATING_INPUT"
  /\ app.destinationName # ""
  /\ Commit([app EXCEPT !.destinationName = "", !.destinationLoc = Null,
                        !.suggestions = <<>>])
  /\ UNCHANGED <<routeCalls, searchCalls>>

\* Navigation input, Choose destination on map
ClickPickOnMap ==
  /\ app.mode = "NAVIGATING_INPUT"
  /\ ~app.isSearching
  /\ app.suggestions = <<>>
  /\ Commit([app EXCEPT !.mode = "NAVIGATING_PICK_MAP", !.destinationLoc = Null])
  /\ UNCHANGED <<routeCalls, searchCalls>>

HandleSelectSuggestion(i) ==
  /\ app.mode = "NAVIGATING_INPUT"
  /\ i \in 1..Len(app.suggestions)
  /\ LET place == app.suggestions[i] IN
     CalculateRoute([app EXCEPT !.destinationName = place.name,
                                !.destinationLoc = place.location,
                                !.suggestions = <<>>],
                    place.location, place.name)
  /\ UNCHANGED searchCalls

\* Pick on map, X
CancelPickOnMap ==
  /\ app.mode = "NAVIGATING_PICK_MAP"
  /\ Commit([app EXCEPT !.mode = "NAVIGATING_INPUT"])
  /\ UNCHANGED <<routeCalls, searchCalls>>

\* Pick on map, Confirm Destination
ConfirmDestination ==
  /\ app.mode = "NAVIGATING_PICK_MAP"
  /\ app.destinationLoc # Null
  /\ CalculateRoute(app, app.destinationLoc, PINNED_NAME)
  /\ UNCHANGED searchCalls

\* Mutant of ResetNavigation: the route is cleared and the mode is kept
ResetNavigationKeepsMode ==
  /\ app.mode = "NAVIGATING_SHOW"
  /\ app.routeInfo # Null
  /\ Commit([app EXCEPT !.route = <<>>, !.routeInfo = Null,
                        !.destinationName = "", !.destinationLoc = Null,
                        !.suggestions = <<>>])
  /\ UNCHANGED <<routeCalls, searchCalls>>

\* Route display, End: resetNavigation
ResetNavigation ==
  /\ app.mode = "NAVIGATING_SHOW"
  /\ app.routeInfo # Null
  /\ Commit([app EXCEPT !.route = <<>>, !.routeInfo = Null,
                        !.destinationName = "", !.destinationLoc = Null,
                        !.suggestions = <<>>, !.mode = "MENU"])
  /\ UNCHANGED <<routeCalls, searchCalls>>

InitApp ==
  /\ RouteInit
  /\ conflictCall = Null
  /\ formatCall = Null
  /\ distanceCall = Null
  /\ PinIdle
  /\ AppInit

NextApp ==
  \/ \E c \in 1..MaxRouteCalls : RouteDirectSettles(c) /\ UNCHANGED <<routeVars, conflictCall, formatCall, distanceCall, pinVars>>
  \/ \E c \in 1..MaxRouteCalls : RouteDetoursSettle(c) /\ UNCHANGED <<routeVars, conflictCall, formatCall, distanceCall, pinVars>>
  \/ \E c \in 1..MaxRouteCalls : RouteNarrativeSettles(c) /\ UNCHANGED <<routeVars, conflictCall, formatCall, distanceCall, pinVars>>
  \/ PinsUpdated /\ UNCHANGED <<routeVars, conflictCall, formatCall, distanceCall, pinVars>>
  \/ SearchTimerFires /\ UNCHANGED <<routeVars, conflictCall, formatCall, distanceCall, pinVars>>
  \/ \E i \in 1..MaxSearchCalls : SearchSettles(i) /\ UNCHANGED <<routeVars, conflictCall, formatCall, distanceCall, pinVars>>
  \/ ClickNavigate /\ UNCHANGED <<routeVars, conflictCall, formatCall, distanceCall, pinVars>>
  \/ ClickReport /\ UNCHANGED <<routeVars, conflictCall, formatCall, distanceCall, pinVars>>
  \/ CancelReport /\ UNCHANGED <<routeVars, conflictCall, formatCall, distanceCall, pinVars>>
  \/ \E loc \in MapLocations : HandleMapClick(loc) /\ UNCHANGED <<routeVars, conflictCall, formatCall, distanceCall, pinVars>>
  \/ ClosePinModal /\ UNCHANGED <<routeVars, conflictCall, formatCall, distanceCall, pinVars>>
  \/ HandlePinSubmit /\ UNCHANGED <<routeVars, conflictCall, formatCall, distanceCall, pinVars>>
  \/ BackFromInput /\ UNCHANGED <<routeVars, conflictCall, formatCall, distanceCall, pinVars>>
  \/ \E name \in TypedNames : TypeDestination(name) /\ UNCHANGED <<routeVars, conflictCall, formatCall, distanceCall, pinVars>>
  \/ HandleClearSearch /\ UNCHANGED <<routeVars, conflictCall, formatCall, distanceCall, pinVars>>
  \/ ClickPickOnMap /\ UNCHANGED <<routeVars, conflictCall, formatCall, distanceCall, pinVars>>
  \/ \E i \in 1..4 : HandleSelectSuggestion(i) /\ UNCHANGED <<routeVars, conflictCall, formatCall, distanceCall, pinVars>>
  \/ CancelPickOnMap /\ UNCHANGED <<routeVars, conflictCall, formatCall, distanceCall, pinVars>>
  \/ ConfirmDestination /\ UNCHANGED <<routeVars, conflictCall, formatCall, distanceCall, pinVars>>
  \/ ResetNavigation /\ UNCHANGED <<routeVars, conflictCall, formatCall, distanceCall, pinVars>>

SpecApp == InitApp /\ [][NextApp]_vars

-----------------------------------------------------------------------------
(* Properties of getSafeRoute: what was offered to the selection *)

\* The selection of getSafeRoute has been made.
Selected == pc \in {"awaitNarrative", "done"} /\ directRouteData # Null

\* The fan-out took place and Promise.all has resolved.
FanOutJoined == Selected /\ results # <<>>

GenerationOrder ==
  << "direct", "left-300", "right-300", "left-600", "right-600",
     "left-1000", "right-1000", "left-1500", "right-1500" >>

Succeeded == SelectSeq(results, LAMBDA r : r.data # Null)

\* The direct path followed by the scored routes of the requests that
\* produced a route, in request order.
Offered ==
  <<DirectCandidate(directRouteData, pins, start, destinationLoc)>> \o
  [k \in 1..Len(Succeeded) |->
     Evaluate(Succeeded[k].data, Succeeded[k].type, pins, start, destinationLoc)]

InRange(off) ==
  \A k \in 1..Len(off) : off[k].data.duration >= 0 /\ off[k].data.duration < 1000000

FirstMin(seq) ==
  CHOOSE i \in 1..Len(seq) :
    /\ \A j \in 1..Len(seq) : seq[i].score <= seq[j].score
    /\ \A j \in 1..(i - 1) : seq[j].score > seq[i].score

PositionOf(type) == CHOOSE n \in 1..Len(GenerationOrder) : GenerationOrder[n] = type

\* C1: with all durations in [0, 1000000), the selected candidate has the
\* least conflict count of all candidates and, among the candidates with that
\* conflict count, the least duration.
C1_MinConflictsThenDuration ==
  Selected =>
    LET off == Offered IN
    InRange(off) =>
      /\ \E k \in 1..Len(off) : off[k] = selectedRoute
      /\ \A k \in 1..Len(off) :
           /\ Len(selectedRoute.conflicts) <= Len(off[k].conflicts)
           /\ Len(off[k].conflicts) = Len(selectedRoute.conflicts)
                => selectedRoute.data.duration <= off[k].data.duration

\* A detour faster than the direct path, with as many conflicts, was selected.
C1_Witness ==
  /\ pc = "done"
  /\ FanOutJoined
  /\ selectedRoute.type # "direct"
  /\ LET off == Offered IN
     /\ InRange(off)
     /\ Len(off[1].conflicts) = Len(selectedRoute.conflicts)
     /\ off[1].data.duration > selectedRoute.data.duration

\* C2 as claimed: whenever the direct path has a conflict and some returned
\* detour has none, a zero-conflict candidate is selected, never the direct
\* path, however long the zero-conflict candidate is.
C2_ZeroConflictAlwaysWins ==
  Selected =>
    LET off == Offered IN
    (/\ Len(off[1].conflicts) >= 1
     /\ \E k \in 2..Len(off) : Len(off[k].conflicts) = 0)
    => (selectedRoute.type # "direct" /\ Len(selectedRoute.conflicts) = 0)

\* C2 amended: the same, for candidates whose durations are all in [0, 1000000).
C2_ZeroConflictWinsInRange ==
  Selected =>
    LET off == Offered IN
    (/\ InRange(off)
     /\ Len(off[1].conflicts) >= 1
     /\ \E k \in 2..Len(off) : Len(off[k].conflicts) = 0)
    => (selectedRoute.type # "direct" /\ Len(selectedRoute.conflicts) = 0)

\* A clear detour four times as long as the conflicting direct path was selected.
C2_Witness ==
  /\ pc = "done"
  /\ FanOutJoined
  /\ Len(selectedRoute.conflicts) = 0
  /\ selectedRoute.type # "direct"
  /\ LET off == Offered IN
     /\ InRange(off)
     /\ Len(off[1].conflicts) >= 1
     /\ selectedRoute.data.duration >= 4 * off[1].data.duration

\* C3: the selected candidate is the earliest, in generation order, of the
\* candidates with the lowest score; the direct path wins every tie it is in.
C3_StableMinimum ==
  Selected =>
    LET off == Offered IN
    /\ \A k \in 1..(Len(off) - 1) :
         PositionOf(off[k].type) < PositionOf(off[k + 1].type)
    /\ selectedRoute = off[FirstMin(off)]
    /\ (\A k \in 1..Len(off) : off[1].score <= off[k].score)
         => selectedRoute.type = "direct"

\* The direct path tied with two detours for the lowest score.
C3_Witness ==
  /\ pc = "done"
  /\ FanOutJoined
  /\ selectedRoute.type = "direct"
  /\ LET off == Offered IN
     \E k, l \in 2..Len(off) :
       /\ k # l
       /\ off[k].score = selectedRoute.score
       /\ off[l].score = selectedRoute.score

\* C8: whichever detour requests fail, the calculation is not failed by them:
\* the candidates are the direct path and exactly the routes of the requests
\* that succeeded, the result is their stable minimum, and it is the direct
\* path when all eight failed.
C8_FailedDetoursAreAbsent ==
  FanOutJoined =>
    LET off == Offered
        ok == {i \in 1..8 : results[i].data # Null}
    IN  /\ Len(results) = 8
        /\ Len(candidates) = 1 + Cardinality(ok)
        /\ \A i \in 1..8 :
             IF i \in ok
             THEN \E k \in 1..Len(candidates) :
                    /\ candidates[k].type = GenerationOrder[i + 1]
                    /\ candidates[k].data = results[i].data
             ELSE \A k \in 1..Len(candidates) :
                    candidates[k].type # GenerationOrder[i + 1]
        /\ \E k \in 1..Len(candidates) : candidates[k].type = "direct"
        /\ selectedRoute = off[FirstMin(off)]
        /\ ok = {} => selectedRoute.type = "direct"
        /\ pc = "done" =>
             /\ response = FailureResponse => aiOutcome.kind = "reject"
             /\ aiOutcome.kind = "reply" =>
                  /\ response.route = selectedRoute.coords
                  /\ Len(response.route) > 0
                  /\ (ok = {} => response.route = ToCoords(directRouteData))

\* Some requests failed, some succeeded, and a detour was returned.
C8_Witness ==
  /\ pc = "done"
  /\ FanOutJoined
  /\ Cardinality({i \in 1..8 : results[i].data = Null}) = 5
  /\ results[1].data = Null
  /\ selectedRoute.type = "right-600"
  /\ response.route = selectedRoute.coords

NarrativeFailed ==
  \/ aiOutcome.kind = "reject"
  \/ /\ aiOutcome.kind = "reply"
     /\ aiOutcome.text \in {"Sorry, I cannot help with that.", "{\"note\": \"ok\"}"}

\* C6: whenever the narrative call fails (it throws, its reply is not JSON, or
\* its reply has no safetyNote), getSafeRoute returns the chosen non-empty path
\* and its formatted duration with one of the fixed fallback sentences.
C6_NarrativeFailureKeepsRoute ==
  (pc = "done" /\ directRouteData # Null /\ NarrativeFailed) =>
    /\ response.route = selectedRoute.coords
    /\ Len(response.route) > 0
    /\ "duration" \in DOMAIN response
    /\ response.safetyNote \in {NEUTRAL_NOTE, WARNING_NOTE}

\* C7: without a direct route the result is the empty route with the apology
\* and no duration, after one routing request and no narrative request; and
\* no other condition produces that result.
C7_NoRouteIsTheOnlyFailure ==
  pc = "done" =>
    /\ directRouteData = Null =>
         /\ response = FailureResponse
         /\ response.route = <<>>
         /\ "duration" \notin DOMAIN response
         /\ Len(osrmCalls) = 1
         /\ aiCalls = 0
    /\ response = FailureResponse => directRouteData = Null

\* C9: when the narrative reply has no usable safetyNote (empty text, not JSON,
\* no such field), the note is the neutral sentence if the chosen path has no
\* conflict and the warning sentence if it has one or more.
C9_FallbackNote ==
  (/\ pc = "done"
   /\ aiOutcome.kind = "reply"
   /\ aiOutcome.text \in {"", "Sorry, I cannot help with that.", "{\"note\": \"ok\"}"})
  => response.safetyNote =
       IF Len(selectedRoute.conflicts) = 0
       THEN "Stay aware of your surroundings."
       ELSE "Warning: Safe path not possible. This route still passes near reported danger zones."

\* A reply that is not JSON, for a chosen path that still has a conflict.
C9_Witness ==
  /\ pc = "done"
  /\ aiOutcome = [kind |-> "reply", text |-> "Sorry, I cannot help with that."]
  /\ Len(selectedRoute.conflicts) > 0
  /\ response.safetyNote = WARNING_NOTE

-----------------------------------------------------------------------------
(* Properties of checkRouteConflicts (SpecConflicts) *)

\* Pin k of the call is a DANGER pin less than 150 m from a path point and
\* more than 80 m from both terminals.
Qualifies(call, k) ==
  /\ call.pins[k].safetyLevel = "DANGER"
  /\ \E j \in 1..Len(call.routePath) :
       Abs(call.routePath[j].lat - call.pins[k].lat) < 150
  /\ Abs(call.pins[k].lat - call.startLoc.lat) > 80
  /\ Abs(call.pins[k].lat - call.endLoc.lat) > 80

\* C4: checkRouteConflicts returns, once each, exactly the DANGER pins that are
\* less than 150 m from some path point and more than 80 m from start and end.
C4_ConflictSetExact ==
  conflictCall.returned =>
    LET r == conflictCall.result IN
    /\ \A a, b \in 1..Len(r) : a # b => r[a] # r[b]
    /\ {r[a] : a \in 1..Len(r)} =
         {k \in 1..Len(conflictCall.pins) : Qualifies(conflictCall, k)}

\* A pin met at two path points is returned once, and a DANGER pin 80 m from
\* the start, under the path, is not returned.
C4_Witness ==
  /\ conflictCall.returned
  /\ Len(conflictCall.result) = 1
  /\ Len(conflictCall.routePath) = 2
  /\ \A j \in 1..2 :
       Abs(conflictCall.routePath[j].lat
             - conflictCall.pins[conflictCall.result[1]].lat) < 150
  /\ \E k \in 1..Len(conflictCall.pins) :
       /\ conflictCall.pins[k].safetyLevel = "DANGER"
       /\ Abs(conflictCall.pins[k].lat - conflictCall.startLoc.lat) = 80
       /\ Abs(conflictCall.routePath[1].lat - conflictCall.pins[k].lat) < 150

\* C5: no SAFE or CAUTION pin is in a conflict set, at any distance.
C5_OnlyDangerPins ==
  conflictCall.returned =>
    \A a \in 1..Len(conflictCall.result) :
      conflictCall.pins[conflictCall.result[a]].safetyLevel \notin {"SAFE", "CAUTION"}

\* A CAUTION pin under the path and away from the terminals was left out,
\* next to a DANGER pin that was returned.
C5_Witness ==
  /\ conflictCall.returned
  /\ Len(conflictCall.result) = 1
  /\ \E k \in 1..Len(conflictCall.pins) :
       /\ conflictCall.pins[k].safetyLevel = "CAUTION"
       /\ \E j \in 1..Len(conflictCall.routePath) :
            Abs(conflictCall.routePath[j].lat - conflictCall.pins[k].lat) < 150
       /\ Abs(conflictCall.pins[k].lat - conflictCall.startLoc.lat) > 80
       /\ Abs(conflictCall.pins[k].lat - conflictCall.endLoc.lat) > 80

-----------------------------------------------------------------------------
(* Properties of formatDuration (SpecFormat) *)

DisplayedMinutes(parts) ==
  IF parts.form = "min" THEN parts.mins ELSE parts.hours * 60 + parts.mins

\* C10: the minutes displayed for s seconds are the least T with
\* T * 60 >= 1.2 * s, that is the ceiling of s / 50.
C10_RoundsUp ==
  formatCall.returned =>
    LET T == DisplayedMinutes(formatCall.parts)
        s == formatCall.seconds
    IN  /\ T >= 0
        /\ T * 600 >= 12 * s
        /\ \A U \in 0..(T - 1) : U * 600 < 12 * s
        /\ T * 50 >= s
        /\ (T - 1) * 50 < s

\* 3601 s: 72.02 buffered minutes are displayed as 1 hr 13 min.
C10_Witness ==
  /\ formatCall.returned
  /\ formatCall.seconds % 50 # 0
  /\ formatCall.parts.form = "hr"
  /\ DisplayedMinutes(formatCall.parts) * 50 > formatCall.seconds


\* The buffered, rounded-up total of s seconds: the least T with T * 50 >= s.
BufferedMinutes(s) == CHOOSE T \in 0..s : T * 50 >= s /\ (T = 0 \/ (T - 1) * 50 < s)

\* C11: the text is "{N} min walk" when the buffered total T is below 60 and
\* "{H} hr {M} min walk" otherwise, with H = T div 60 and M = T mod 60 in 0..59;
\* 590 s gives "12 min walk", 3600 s "1 hr 12 min walk", 3000 s "1 hr 0 min walk".
C11_DurationText ==
  formatCall.returned =>
    LET s == formatCall.seconds
        T == BufferedMinutes(s)
        H == T \div 60
        M == T % 60
    IN  /\ M >= 0 /\ M <= 59 /\ H * 60 + M = T
        /\ formatCall.text =
             IF T < 60 THEN ToString(T) \o " min walk"
             ELSE ToString(H) \o " hr " \o ToString(M) \o " min walk"
        /\ s = 590 => formatCall.text = "12 min walk"
        /\ s = 3600 => formatCall.text = "1 hr 12 min walk"
        /\ s = 3000 => formatCall.text = "1 hr 0 min walk"
        /\ s = 2950 => formatCall.text = "59 min walk"

\* Exactly sixty buffered minutes were formatted.
C11_Witness ==
  /\ formatCall.returned
  /\ formatCall.seconds = 3000
  /\ formatCall.text = "1 hr 0 min walk"


-----------------------------------------------------------------------------
(* Properties of the pin store (SpecPins) *)

StoreContent == GetLocalPinsSync(storage)

\* C12: after any sequence of addPin, removePin and seedData the identifiers
\* of the pins in the store are pairwise distinct.
C12_DistinctIds ==
  \A i, j \in 1..Len(StoreContent) :
    i # j => StoreContent[i].id # StoreContent[j].id

\* C13: removePin(id) removes exactly the pins whose identifier is id and
\* keeps the other pins and their relative order; without such a pin the
\* store content is unchanged.
C13_RemoveExact ==
  [][ lastOp'.name = "removePin" =>
        LET before == GetLocalPinsSync(storage)
            after == GetLocalPinsSync(storage')
            keep == {i \in 1..Len(before) : before[i].id # lastOp'.arg}
            rank(i) == Cardinality({j \in keep : j <= i})
        IN  /\ Len(after) = Cardinality(keep)
            /\ \A i \in keep : after[rank(i)] = before[i]
            /\ keep = 1..Len(before) => after = before ]_vars

\* Two pins with the removed identifier were removed around a pin that stayed.
C13_Witness ==
  /\ lastOp.name = "removePin"
  /\ lastOp.before = 3
  /\ Len(StoreContent) = 1
  /\ StoreContent[1].id # lastOp.arg

\* C14: a subscriber gets the full pin set on subscribing and after every
\* operation that changes the store, so that what every active subscriber
\* last got is the store content; once unsubscribed it is not called again.
C14_Subscription ==
  /\ [](\A s \in Subscribers :
          /\ subscribers[s].status = "active" => subscribers[s].delivered = StoreContent
          /\ subscribers[s].status # "active" => s \notin lastOp.notified)
  /\ [][ /\ GetLocalPinsSync(storage') # GetLocalPinsSync(storage)
            => lastOp'.notified = ActiveSubscribers(subscribers)
         /\ \A s \in Subscribers :
              (subscribers[s].status = "none" /\ subscribers'[s].status = "active")
                => (s \in lastOp'.notified
                    /\ subscribers'[s].delivered = GetLocalPinsSync(storage)) ]_vars

\* A removal was delivered to the one active subscriber, after the other
\* had unsubscribed.
C14_Witness ==
  /\ lastOp.name = "removePin"
  /\ lastOp.before = 3
  /\ lastOp.notified = {"s1"}
  /\ subscribers["s2"].status = "closed"
  /\ Len(StoreContent) = 2
  /\ subscribers["s1"].delivered = StoreContent


-----------------------------------------------------------------------------
(* Properties of getDistanceMeters (SpecDistance) *)

\* C15: the distance of a coordinate to itself is 0, the distance from p1 to
\* p2 is the distance from p2 to p1, and no distance is negative.
C15_DistanceSymmetric ==
  distanceCall.returned =>
    /\ distanceCall.result >= 0
    /\ distanceCall.result = GreatCircleMeters(distanceCall.p2, distanceCall.p1)
    /\ distanceCall.p1 = distanceCall.p2 => distanceCall.result = 0
    /\ GreatCircleMeters(distanceCall.p1, distanceCall.p1) = 0

\* Two coordinates of different latitude and longitude, one on the equator,
\* at a positive distance.
C15_Witness ==
  /\ distanceCall.returned
  /\ distanceCall.p1.lat = 0
  /\ distanceCall.p2.lat = 60
  /\ distanceCall.p1.lng # distanceCall.p2.lng
  /\ distanceCall.result > 0


-----------------------------------------------------------------------------
(* Properties of the detour fan-out (Spec) *)

Outstanding == {i \in DOMAIN results : results[i] = Pending}

\* C16: the eight waypoint requests are all issued before any of them is
\* awaited or settles, and while one of them is outstanding nothing has been
\* evaluated or selected: the invocation is suspended at Promise.all, the
\* candidate list is empty, the selection is still the direct route and no
\* narrative has been asked for.
C16_JoinAfterAllSettled ==
  /\ pc = "awaitDetours" => Len(results) = NumDetours
  /\ results # <<>> =>
       /\ Len(osrmCalls) = 1 + NumDetours
       /\ \A i \in 1..NumDetours : osrmCalls[i + 1].type = TypeOf(i)
  /\ Outstanding # {} =>
       /\ pc = "awaitDetours"
       /\ candidates = <<>>
       /\ selectedRoute.type = "direct"
       /\ prompt = Null
       /\ aiCalls = 0
       /\ response = Null
  /\ candidates # <<>> =>
       \A i \in 1..NumDetours : results[i] # Pending

\* Seven requests have settled, a failed one and a faster one among them, and
\* the eighth is outstanding.
C16_Witness ==
  /\ pc = "awaitDetours"
  /\ Cardinality(Outstanding) = 1
  /\ \E i \in 1..NumDetours : results[i] # Pending /\ results[i].data = Null
  /\ \E i \in 1..NumDetours :
       /\ results[i] # Pending
       /\ results[i].data # Null
       /\ results[i].data.duration < selectedRoute.data.duration
  /\ candidates = <<>>


\* C17: the candidate list and the winner are determined by what each request
\* produced, not by when it settled.  Every settled result stands at the index
\* of its request; the candidates are the direct path and the evaluated route
\* of every request that produced one; they are ordered by score and, at equal
\* score, by request position; the winner is the first of them.
C17_OrderIndependent ==
  /\ \A i \in DOMAIN results :
       results[i] # Pending => results[i].type = GenerationOrder[i + 1]
  /\ FanOutJoined =>
       LET ok == {i \in 1..NumDetours : results[i].data # Null}
           direct == DirectCandidate(directRouteData, pins, start, destinationLoc)
       IN  /\ Len(candidates) = 1 + Cardinality(ok)
           /\ \E k \in 1..Len(candidates) : candidates[k] = direct
           /\ \A i \in ok : \E k \in 1..Len(candidates) :
                candidates[k] = Evaluate(results[i].data, GenerationOrder[i + 1],
                                         pins, start, destinationLoc)
           /\ \A k, l \in 1..Len(candidates) :
                k < l =>
                  \/ candidates[k].score < candidates[l].score
                  \/ /\ candidates[k].score = candidates[l].score
                     /\ PositionOf(candidates[k].type) < PositionOf(candidates[l].type)
           /\ selectedRoute = candidates[1]

\* The requests settled in another order than they were made, two detours
\* tied for the lowest score, and the one requested first won.
C17_Witness ==
  /\ pc = "done"
  /\ FanOutJoined
  /\ settledOutOfOrder
  /\ selectedRoute.type # "direct"
  /\ Len(candidates) >= 3
  /\ candidates[2].score = candidates[1].score


-----------------------------------------------------------------------------
(* Properties of the external calls of getSafeRoute (Spec) *)

CallsOfType(type) == {j \in 1..Len(osrmCalls) : osrmCalls[j].type = type}

\* C18: one invocation makes the direct request once; it makes each of the
\* eight waypoint requests once when the direct path has a conflict and none
\* of them when it has none, and then the direct path is the selection; it
\* makes no further request when the winner still has conflicts; it asks for
\* the narrative once when a direct route exists and never otherwise; and the
\* candidate list, once sorted, is not evaluated again.
C18_EachCallOnce ==
  /\ [](/\ pc = "start" => osrmCalls = <<>> /\ aiCalls = 0
        /\ pc = "awaitDirect" => aiCalls = 0 /\ Len(osrmCalls) = 1
        /\ pc # "start" => Cardinality(CallsOfType("direct")) = 1
        /\ pc \in {"awaitDetours", "awaitNarrative", "done"} =>
             IF directRouteData = Null
             THEN Len(osrmCalls) = 1 /\ aiCalls = 0 /\ pc = "done"
             ELSE LET direct == DirectCandidate(directRouteData, pins, start,
                                                destinationLoc)
                  IN  /\ IF Len(direct.conflicts) > 0
                         THEN /\ Len(osrmCalls) = 1 + NumDetours
                              /\ \A n \in 2..Len(GenerationOrder) :
                                   Cardinality(CallsOfType(GenerationOrder[n])) = 1
                         ELSE /\ Len(osrmCalls) = 1
                              /\ results = <<>>
                              /\ candidates = <<>>
                              /\ selectedRoute = direct
                      /\ aiCalls = IF pc = "awaitDetours" THEN 0 ELSE 1)
  /\ [][/\ candidates # <<>> => candidates' = candidates
        /\ Selected => selectedRoute' = selectedRoute /\ osrmCalls' = osrmCalls]_vars

\* The winner of the fan-out still has a conflict, and the invocation ended
\* with nine route requests and one narrative request made.
C18_Witness ==
  /\ pc = "done"
  /\ FanOutJoined
  /\ Len(selectedRoute.conflicts) > 0
  /\ selectedRoute.type # "direct"
  /\ Len(osrmCalls) = 1 + NumDetours
  /\ aiCalls = 1


Sides == {[name |-> "left", turn |-> -90], [name |-> "right", turn |-> 90]}

\* C19: when the direct path has conflicts, the waypoint requests are eight,
\* one for each offset of 300, 600, 1000 and 1500 metres and each side; the
\* waypoint of a request is the point at that offset from the focus hazard at
\* the travel bearing minus 90 degrees (left) or plus 90 degrees (right), and
\* the request goes through start, that waypoint and the destination.  The
\* direct request goes through start and destination only.
C19_EightWaypoints ==
  pc \in {"awaitDetours", "awaitNarrative", "done"} /\ directRouteData # Null =>
    LET direct == DirectCandidate(directRouteData, pins, start, destinationLoc) IN
    /\ osrmCalls[1] = [type |-> "direct", url |-> <<start, destinationLoc>>]
    /\ IF Len(direct.conflicts) = 0
       THEN Len(osrmCalls) = 1
       ELSE LET focus == pins[direct.conflicts[1]]
                travel == GetBearing(start, destinationLoc)
            IN  /\ Len(osrmCalls) = 9
                /\ {osrmCalls[j] : j \in 2..9} =
                     { [type |-> side.name \o "-" \o ToString(off),
                        url |-> << start,
                                   [origin |-> LatLng(focus.lat, focus.lng),
                                    distance |-> off,
                                    bearing |-> travel + side.turn],
                                   destinationLoc >>] :
                       off \in {300, 600, 1000, 1500}, side \in Sides }
                /\ Cardinality({osrmCalls[j].url[2] : j \in 2..9}) = 8

\* The eight requests were made for a focus hazard that is neither a terminal
\* nor a point of the direct path.
C19_Witness ==
  /\ pc = "awaitDetours"
  /\ Len(osrmCalls) = 9
  /\ LET focus == osrmCalls[2].url[2].origin IN
     /\ focus # start
     /\ focus # destinationLoc
     /\ \A j \in 1..Len(selectedRoute.coords) : selectedRoute.coords[j] # focus
     /\ \E k \in 1..Len(pins) : pins[k].safetyLevel = DANGER /\ pins[k].lat = focus.lat


-----------------------------------------------------------------------------
(* Properties of the focus hazard (SpecConflicts) *)

\* Pin k of the call is a DANGER pin less than 150 m from path point j and
\* more than 80 m from both terminals.
MeetsAt(call, j, k) ==
  /\ call.pins[k].safetyLevel = "DANGER"
  /\ Abs(call.routePath[j].lat - call.pins[k].lat) < 150
  /\ Abs(call.pins[k].lat - call.startLoc.lat) > 80
  /\ Abs(call.pins[k].lat - call.endLoc.lat) > 80

\* C20: the focus hazard is the qualifying DANGER pin met at the lowest path
\* index and, of the pins met at that path point, the first in the pin list;
\* all eight waypoints are projected from it and from no other pin.
C20_FocusIsFirstMet ==
  conflictCall.conflictPin # Null =>
    LET call == conflictCall
        jmin == CHOOSE j \in 1..Len(call.routePath) :
                  /\ \E k \in 1..Len(call.pins) : MeetsAt(call, j, k)
                  /\ \A j2 \in 1..(j - 1) : \A k \in 1..Len(call.pins) :
                       ~MeetsAt(call, j2, k)
        kmin == CHOOSE k \in 1..Len(call.pins) :
                  /\ MeetsAt(call, jmin, k)
                  /\ \A k2 \in 1..(k - 1) : ~MeetsAt(call, jmin, k2)
    IN  /\ \E j \in 1..Len(call.routePath) : \E k \in 1..Len(call.pins) :
             MeetsAt(call, j, k)
        /\ call.conflictPin = call.pins[kmin]
        /\ Len(call.waypoints) = 8
        /\ \A i \in 1..8 :
             call.waypoints[i].origin = LatLng(call.pins[kmin].lat, call.pins[kmin].lng)

\* Two pins conflict; the second of the pin list is met at the first path
\* point and the first of the pin list only at the second path point, and the
\* waypoints are projected from the second pin.
C20_Witness ==
  /\ conflictCall.conflictPin # Null
  /\ Len(conflictCall.result) = 2
  /\ conflictCall.conflictPin = conflictCall.pins[2]
  /\ MeetsAt(conflictCall, 1, 2)
  /\ ~MeetsAt(conflictCall, 1, 1)
  /\ MeetsAt(conflictCall, 2, 1)
  /\ conflictCall.pins[1].lat # conflictCall.pins[2].lat
  /\ conflictCall.waypoints[1].origin.lat = conflictCall.pins[2].lat

\* Two pins are met at the same path point, and the focus is the one that
\* comes first in the pin list.
C20_WitnessTie ==
  /\ conflictCall.conflictPin # Null
  /\ Len(conflictCall.result) = 2
  /\ MeetsAt(conflictCall, 1, 1)
  /\ MeetsAt(conflictCall, 1, 2)
  /\ conflictCall.conflictPin = conflictCall.pins[1]


-----------------------------------------------------------------------------
(* Properties of the result of getSafeRoute (Spec) *)

\* getSafeRoute returned a route.
Succeeded_ == pc = "done" /\ response # FailureResponse

\* C21: what the narrative request is told and what a successful result holds
\* come from the one selected candidate: the candidate is one of those offered,
\* its path and conflicts belong to its route data, the duration is the
\* formatted duration of that data, the danger count is the number of its
\* conflicts, and the detour flag is set exactly when it is not the direct path.
C21_OneChosenCandidate ==
  Selected =>
    LET off == Offered IN
    /\ \E k \in 1..Len(off) : off[k] = selectedRoute
    /\ selectedRoute.coords = ToCoords(selectedRoute.data)
    /\ selectedRoute.conflicts =
         CheckRouteConflicts(selectedRoute.coords, pins, start, destinationLoc)
    /\ prompt.duration = FormatDuration(selectedRoute.data.duration)
    /\ prompt.dangerCount = Len(selectedRoute.conflicts)
    /\ prompt.isDetour = (selectedRoute.type # "direct")
    /\ prompt.isDetour = (selectedRoute # off[1])
    /\ Succeeded_ =>
         /\ response.route = selectedRoute.coords
         /\ response.duration = FormatDuration(selectedRoute.data.duration)

\* Detours were tried and the direct path, with its conflicts, was returned.
C21_Witness ==
  /\ Succeeded_
  /\ FanOutJoined
  /\ Len(candidates) >= 2
  /\ selectedRoute.type = "direct"
  /\ ~prompt.isDetour
  /\ prompt.dangerCount = 1
  /\ response.duration = "6 min walk"


-----------------------------------------------------------------------------
(* Properties of stored pins (SpecPins) *)

RECURSIVE IsSubsequence(_, _)
IsSubsequence(a, b) ==
  IF a = <<>> THEN TRUE
  ELSE IF b = <<>> THEN FALSE
  ELSE IF Head(a) = Head(b) THEN IsSubsequence(Tail(a), Tail(b))
  ELSE IsSubsequence(a, Tail(b))

\* C23: no operation changes a stored pin.  addPin leaves every stored pin as
\* it is and appends one pin with the submitted coordinate, severity,
\* description and user, the identifier and the timestamp; seedData leaves a
\* non-empty store as it is; every other operation leaves the stored pins it
\* does not remove as they are, in their order.
C23_PinsReadOnly ==
  [][ LET before == GetLocalPinsSync(storage)
          after == GetLocalPinsSync(storage')
      IN  CASE lastOp'.name = "addPin" ->
                 /\ Len(after) = Len(before) + 1
                 /\ SubSeq(after, 1, Len(before)) = before
                 /\ \E pin \in Submissions, now \in Timestamps :
                      after[Len(after)] =
                        [id |-> lastOp'.arg, lat |-> pin.lat, lng |-> pin.lng,
                         safetyLevel |-> pin.safetyLevel,
                         description |-> pin.description,
                         timestamp |-> now, userId |-> pin.userId]
            [] lastOp'.name = "seedData" ->
                 \/ after = before /\ before # <<>>
                 \/ /\ before = <<>>
                    /\ Len(after) = 3
                    /\ \A i \in 1..3 : after[i].userId = "system"
            [] OTHER -> IsSubsequence(after, before)
    ]_vars

\* A pin was added with an identifier that a stored pin already has, and
\* both pins are in the store with what they were stored with.
C23_Witness ==
  /\ lastOp.name = "addPin"
  /\ Len(StoreContent) = 2
  /\ StoreContent[1].id = StoreContent[2].id
  /\ StoreContent[1].description = "Dark alley"
  /\ StoreContent[2].description = "No description provided."
  /\ StoreContent[1].timestamp # StoreContent[2].timestamp


\* The conflicts of a path against the hazard snapshot of the invocation
ConflictCount(coords) == Len(CheckRouteConflicts(coords, pins, start, destinationLoc))

\* C24: with all durations in [0, 1000000), the path selected has no more
\* conflicts than the direct path.
C24_NeverWorseThanDirect ==
  Selected =>
    LET off == Offered IN
    InRange(off) =>
      ConflictCount(selectedRoute.coords) <= ConflictCount(ToCoords(directRouteData))

\* A detour with more conflicts than the direct path, and faster than every
\* other candidate, was offered and not selected.
C24_Witness ==
  /\ pc = "done"
  /\ FanOutJoined
  /\ ConflictCount(ToCoords(directRouteData)) = 1
  /\ LET off == Offered IN
     /\ InRange(off)
     /\ \E k \in 2..Len(off) :
          /\ ConflictCount(off[k].coords) = 2
          /\ \A l \in 1..Len(off) : off[k].data.duration <= off[l].data.duration
          /\ off[k] # selectedRoute
     /\ ConflictCount(selectedRoute.coords) = 1


\* C25: a returned path on which a conflict remains never comes with the
\* neutral sentence, whatever the narrative reply was.
C25_NoNeutralNoteWithConflicts ==
  (/\ pc = "done"
   /\ response.route # <<>>
   /\ ConflictCount(response.route) > 0)
  => response.safetyNote # "Stay aware of your surroundings."

\* The reply gave the neutral sentence itself for a path with a conflict left.
C25_Witness ==
  /\ pc = "done"
  /\ aiOutcome = [kind |-> "reply",
                  text |-> "{\"safetyNote\": \"Stay aware of your surroundings.\"}"]
  /\ response.route # <<>>
  /\ ConflictCount(response.route) > 0
  /\ response.safetyNote = WARNING_NOTE

\* The steps an invocation has left at most: requests to settle and awaits
\* to resume from.
StepsLeft ==
  CASE pc = "start" -> 4 + NumDetours
    [] pc = "awaitDirect" -> 3 + NumDetours
    [] pc = "awaitDetours" -> 2 + Cardinality(Outstanding)
    [] pc = "awaitNarrative" -> 1
    [] pc = "done" -> 0

\* C26: an invocation that has not ended is at its start or suspended at one
\* of its three awaits, with every request it waits for made; every step
\* brings it nearer to its end; and it ends with a RouteResponse, never with a
\* rejection: either the failure result, with an empty route, the apology and
\* no duration, or a result with a non-empty route, a duration and a safety
\* note.
C26_AlwaysARouteResponse ==
  /\ [](\/ pc = "start"
        \/ pc = "awaitDirect" /\ Len(osrmCalls) = 1
        \/ pc = "awaitDetours" /\ Len(results) = NumDetours
                               /\ Len(osrmCalls) = 1 + NumDetours
        \/ pc = "awaitNarrative" /\ aiCalls = 1
        \/ pc = "done")
  /\ [][StepsLeft' < StepsLeft]_vars
  /\ [](pc = "done" =>
          /\ DOMAIN response \in {{"route", "safetyNote"},
                                  {"route", "duration", "safetyNote"}}
          /\ IF response.route = <<>>
             THEN /\ "duration" \notin DOMAIN response
                  /\ response.safetyNote = APOLOGY_NOTE
             ELSE /\ "duration" \in DOMAIN response
                  /\ response.duration # ""
                  /\ response.safetyNote # "")
  /\ [](pc # "done" => response = Null)

\* The narrative request was rejected after the detours had been evaluated,
\* and the invocation ended with the failure result.
C26_Witness ==
  /\ pc = "done"
  /\ FanOutJoined
  /\ aiOutcome.kind = "reject"
  /\ response = [route |-> <<>>, safetyNote |-> APOLOGY_NOTE]


-----------------------------------------------------------------------------
(* Properties of the App state machine *)

InFlight == {c \in 1..MaxRouteCalls : routeCalls[c] # Null}

\* The candidates of call c are what its own pins argument gives for their
\* coordinates, and the selected one is the best of them by score
ScoredAgainstSnapshot(c) ==
  LET call == routeCalls[c] IN
  /\ \A k \in 1..Len(call.candidates) :
       LET cand == call.candidates[k] IN
       /\ cand.conflicts = CheckRouteConflicts(cand.coords, call.pins, call.start,
                                               call.destinationLoc)
       /\ cand.score = Score(cand.conflicts, cand.data)
       /\ call.selectedRoute.score <= cand.score
  /\ call.candidates # <<>> =>
       \E k \in 1..Len(call.candidates) : call.selectedRoute = call.candidates[k]

\* C22: every candidate of a route calculation in flight, the direct path and
\* the detours alike, carries the conflicts of the pin list that the component
\* held when calculateRoute was invoked, and the selected route is the best of
\* them; that pin list stays the same for the whole calculation, and a pin
\* list delivered by the subscription changes no calculation in flight.
C22_OneHazardSnapshot ==
  /\ [](\A c \in InFlight : ScoredAgainstSnapshot(c))
  /\ [][\A c \in 1..MaxRouteCalls :
          /\ routeCalls[c] = Null /\ routeCalls'[c] # Null =>
               routeCalls'[c].pins = app.pins
          /\ routeCalls[c] # Null /\ routeCalls'[c] # Null =>
               routeCalls'[c].pins = routeCalls[c].pins
          /\ app'.pins # app.pins => routeCalls'[c] = routeCalls[c]]_vars

\* A calculation that scored the direct path and a detour against p1 while
\* the component already holds an empty pin list
C22_Witness ==
  \E c \in InFlight :
    /\ routeCalls[c].stage = "awaitNarrative"
    /\ Len(routeCalls[c].candidates) = 2
    /\ routeCalls[c].pins = <<Pin("p1", 500, DANGER)>>
    /\ app.pins = <<>>
    /\ Len(routeCalls[c].candidates[2].conflicts) > 0
    /\ routeCalls[c].selectedRoute.type = "left-300"


\* C27: whenever the mode is NAVIGATING_SHOW, the route is a non-empty path
\* and routeInfo is not null.
C27_ShownRouteExists ==
  app.mode = "NAVIGATING_SHOW" => app.route # <<>> /\ app.routeInfo # Null

\* A route is shown again by the completion of a second calculation, after
\* the first one was shown and ended
C27_Witness ==
  /\ app.mode = "NAVIGATING_SHOW"
  /\ app.destinationName = ""
  /\ app.route # <<>>
  /\ InFlight = {}


RouteCompletes == \E c \in InFlight : routeCalls'[c] = Null

\* C28: the completion of a route calculation while the mode is MENU or
\* REPORTING changes neither the mode nor the route nor routeInfo.
C28_StaleResultIgnored ==
  [][RouteCompletes /\ app.mode \in {"MENU", "REPORTING"} =>
       /\ app'.mode = app.mode
       /\ app'.route = app.route
       /\ app'.routeInfo = app.routeInfo]_vars

\* C29: isRouting is true exactly when a route calculation is in flight.
C29_RoutingFlagTracksCalls == app.isRouting = (InFlight # {})

SearchIsCurrent(query) ==
  /\ app.mode = "NAVIGATING_INPUT"
  /\ app.destinationLoc = Null
  /\ app.destinationName = query

\* C30: the suggestion list is empty whenever a destination location is set
\* or the mode is not NAVIGATING_INPUT, and a place search that settles fills
\* the list only if the search field still holds its query in that mode with
\* no location selected.
C30_NoStaleSuggestions ==
  /\ [](app.destinationLoc # Null \/ app.mode # "NAVIGATING_INPUT" =>
          app.suggestions = <<>>)
  /\ [][searchCalls # <<>> /\ searchCalls' = <<>> /\ ~SearchIsCurrent(searchCalls[1]) =>
          app'.suggestions = app.suggestions]_vars

====
